---- MODULE Spec2Model ----
(***************************************************************************)
(* Session ledger of the tutoring billing dashboard (billing_logic.py).    *)
(* The "sessions" worksheet is a sequence of rows below a fixed header.    *)
(* Text cells whose content the code slices, trims, lower-cases or         *)
(* concatenates are sequences of one-character strings; money is kept in   *)
(* cents and hours in hundredths, which is what the "%.2f" cells hold.     *)
(***************************************************************************)
EXTENDS Integers, Sequences, FiniteSets, TLC

VARIABLES store, summary, op, ret, procs

vars == <<store, summary, op, ret, procs>>

(* ------------------------------ bounds --------------------------------- *)

MaxRows == 2

(* --------------------------- text helpers ------------------------------ *)

UpperChars == <<"A","B","C","D","E","F","G","H","I","J","K","L","M",
                "N","O","P","Q","R","S","T","U","V","W","X","Y","Z">>

LowerChars == <<"a","b","c","d","e","f","g","h","i","j","k","l","m",
                "n","o","p","q","r","s","t","u","v","w","x","y","z">>

LowerChar(c) ==
    IF \E i \in 1..26 : UpperChars[i] = c
    THEN LowerChars[CHOOSE i \in 1..26 : UpperChars[i] = c]
    ELSE c

\* str.lower()
Lower(s) == [i \in 1..Len(s) |-> LowerChar(s[i])]

RECURSIVE LStrip(_)
LStrip(s) == IF s # <<>> /\ Head(s) = " " THEN LStrip(Tail(s)) ELSE s

RECURSIVE RStrip(_)
RStrip(s) ==
    IF s # <<>> /\ s[Len(s)] = " " THEN RStrip(SubSeq(s, 1, Len(s) - 1)) ELSE s

\* str.strip()
Strip(s) == RStrip(LStrip(s))

\* str.startswith(p)
StartsWith(s, p) == Len(s) >= Len(p) /\ SubSeq(s, 1, Len(p)) = p

\* str.replace(c, d) for one-character c and d
ReplaceChar(s, c, d) == [i \in 1..Len(s) |-> IF s[i] = c THEN d ELSE s[i]]

\* str.replace(c, "") for a one-character c
RECURSIVE RemoveChar(_, _)
RemoveChar(s, c) ==
    IF s = <<>> THEN <<>>
    ELSE IF Head(s) = c THEN RemoveChar(Tail(s), c)
    ELSE <<Head(s)>> \o RemoveChar(Tail(s), c)

\* str.replace(old, new, 1)
ReplaceFirst(s, old, new) ==
    LET hits == {i \in 1..(Len(s) - Len(old) + 1) :
                    SubSeq(s, i, i + Len(old) - 1) = old}
    IN  IF hits = {} THEN s
        ELSE LET i == CHOOSE h \in hits : \A g \in hits : h <= g
             IN  SubSeq(s, 1, i - 1) \o new \o SubSeq(s, i + Len(old), Len(s))

DigitChars == <<"0","1","2","3","4","5","6","7","8","9">>

\* str(n) for n >= 0
RECURSIVE IntStr(_)
IntStr(n) ==
    IF n < 10 THEN <<DigitChars[n + 1]>>
    ELSE IntStr(n \div 10) \o <<DigitChars[(n % 10) + 1]>>

DigitVal(c) == (CHOOSE i \in 1..10 : DigitChars[i] = c) - 1

\* int(s) for a string of decimal digits
RECURSIVE StrInt(_)
StrInt(s) ==
    IF s = <<>> THEN 0
    ELSE 10 * StrInt(SubSeq(s, 1, Len(s) - 1)) + DigitVal(s[Len(s)])

\* f"{x:.2f}" for a non-negative amount held in hundredths
Fmt2(c) ==
    IntStr(c \div 100) \o <<".">> \o
    <<DigitChars[((c % 100) \div 10) + 1], DigitChars[(c % 10) + 1]>>

(* ------------------------------ dates ---------------------------------- *)

IsLeap(y) == (y % 4 = 0 /\ y % 100 # 0) \/ y % 400 = 0

DaysInMonth(y, m) ==
    IF m = 2 THEN (IF IsLeap(y) THEN 29 ELSE 28)
    ELSE IF m \in {4, 6, 9, 11} THEN 30 ELSE 31

RECURSIVE DaysBeforeMonth(_, _)
DaysBeforeMonth(y, m) ==
    IF m = 1 THEN 0 ELSE DaysBeforeMonth(y, m - 1) + DaysInMonth(y, m - 1)

\* days before January 1st of year y, counted from 0001-01-01
DaysBeforeYear(y) ==
    (y - 1) * 365 + ((y - 1) \div 4) - ((y - 1) \div 100) + ((y - 1) \div 400)

\* datetime.strptime(s, "%Y-%m-%d").date(), as a day number
ParseISO(s) ==
    LET y == StrInt(SubSeq(s, 1, 4))
        m == StrInt(SubSeq(s, 6, 7))
        d == StrInt(SubSeq(s, 9, 10))
    IN  DaysBeforeYear(y) + DaysBeforeMonth(y, m) + d

\* the year holding day number n, searched upwards from y
RECURSIVE YearOfDay(_, _)
YearOfDay(n, y) ==
    IF n <= DaysBeforeYear(y + 1) THEN y ELSE YearOfDay(n, y + 1)

RECURSIVE MonthOfDay(_, _, _)
MonthOfDay(n, y, m) ==
    IF n <= DaysBeforeMonth(y, m) + DaysInMonth(y, m) THEN m
    ELSE MonthOfDay(n, y, m + 1)

Pad2(n) == <<DigitChars[(n \div 10) + 1], DigitChars[(n % 10) + 1]>>

\* date.isoformat() of a day number
FormatISO(n) ==
    LET y == YearOfDay(n, n \div 366)
        r == n - DaysBeforeYear(y)
        m == MonthOfDay(r, y, 1)
        d == r - DaysBeforeMonth(y, m)
    IN  IntStr(y) \o <<"-">> \o Pad2(m) \o <<"-">> \o Pad2(d)

\* _week_range_from_sunday: (monday_iso, sunday_iso)
week_range_from_sunday(sunday_iso) ==
    LET sunday == ParseISO(sunday_iso)
        monday == sunday - 6
    IN  [start |-> FormatISO(monday), end |-> FormatISO(sunday)]

(* ------------------------- duration parsing ---------------------------- *)

\* int(s): surrounding spaces and one sign are allowed, then decimal digits,
\* possibly separated by single underscores; anything else is a ValueError
PyInt(s) ==
    LET t      == Strip(s)
        signed == t # <<>> /\ Head(t) \in {"-", "+"}
        body   == IF signed THEN Tail(t) ELSE t
        ok     == /\ body # <<>>
                  /\ \A i \in DOMAIN body :
                        \/ body[i] \in {DigitChars[k] : k \in DOMAIN DigitChars}
                        \/ /\ body[i] = "_"
                           /\ 1 < i
                           /\ i < Len(body)
                           /\ body[i + 1] # "_"
        v      == StrInt(RemoveChar(body, "_"))
    IN  [ok    |-> ok,
         value |-> IF ~ok THEN 0 ELSE IF Head(t) = "-" THEN 0 - v ELSE v]

\* raise ValueError(...)
DurationError == [raised |-> TRUE, value |-> 0]

\* return total
Minutes(total) == [raised |-> FALSE, value |-> total]

\* lines 129-132 of parse_duration without the test of the total
AnyTotal(total) == Minutes(total)

\* lines 129-132 of parse_duration
PositiveTotal(total) == IF total <= 0 THEN DurationError ELSE Minutes(total)

\* lines 121-132 of parse_duration
ParseHHMM(hhmm_text) ==
    IF \A i \in DOMAIN hhmm_text : hhmm_text[i] # ":" THEN DurationError
    ELSE LET k == CHOOSE i \in DOMAIN hhmm_text :
                      /\ hhmm_text[i] = ":"
                      /\ \A j \in 1..(i - 1) : hhmm_text[j] # ":"
             h == PyInt(SubSeq(hhmm_text, 1, k - 1))
             m == PyInt(SubSeq(hhmm_text, k + 1, Len(hhmm_text)))
         IN  IF ~h.ok \/ ~m.ok THEN DurationError
             ELSE IF ~(0 <= m.value /\ m.value < 60) THEN DurationError
             ELSE PositiveTotal(h.value * 60 + m.value)

parse_duration(minutes_text_in, hhmm_text_in) ==
    LET minutes_text == Strip(minutes_text_in)
        hhmm_text    == Strip(hhmm_text_in)
    IN  IF minutes_text # <<>> /\ hhmm_text # <<>> THEN DurationError
        ELSE IF minutes_text = <<>> /\ hhmm_text = <<>> THEN DurationError
        ELSE IF minutes_text # <<>>
             THEN LET m == PyInt(minutes_text)
                  IN  IF ~m.ok THEN DurationError
                      ELSE IF m.value <= 0 THEN DurationError
                      ELSE Minutes(m.value)
        ELSE ParseHHMM(hhmm_text)

(* ----------------------- constants / config ---------------------------- *)

SERVICES == {"K-12 Tutoring", "SAT & ACT Prep", "College & AP Courses"}

MODES == {"Online", "In-Person"}

\* hourly rates in whole dollars
LEGACY_RATES ==
    [s \in SERVICES |->
        CASE s = "K-12 Tutoring" -> 25
          [] s = "SAT & ACT Prep" -> 35
          [] s = "College & AP Courses" -> 30]

NEW_RATES ==
    [s \in SERVICES |->
        [m \in MODES |->
            CASE s = "K-12 Tutoring" -> (IF m = "Online" THEN 30 ELSE 40)
              [] s = "SAT & ACT Prep" -> (IF m = "Online" THEN 35 ELSE 45)
              [] s = "College & AP Courses" -> (IF m = "Online" THEN 40 ELSE 50)]]

Nitin == <<"N","i","t","i","n">>

StrPay == <<"P","a","y"," ">>

StrPaidSp == <<"P","a","i","d"," ">>

StrPaid == <<"P","a","i","d">>

StrNotPaid == <<"N","o","t"," ","P","a","i","d">>

StrFreeSession == <<"F","r","e","e"," ","s","e","s","s","i","o","n">>

StrFree == <<"F","r","e","e">>

StrFreeLower == <<"f","r","e","e">>

StrPaidLower == <<"p","a","i","d">>

StrNotPaidLower == <<"n","o","t"," ","p","a","i","d">>

StrUnpaidLower == <<"u","n","p","a","i","d">>

StrFreeSessionLower == <<"f","r","e","e"," ","s","e","s","s","i","o","n">>

StrUnpaid == <<"U","n","p","a","i","d">>

StrWeird == <<"w","e","i","r","d","_","v","a","l","u","e">>

(* ------------------------ rates and pricing ---------------------------- *)

\* round(total_minutes / 60.0, 2), in hundredths of an hour; 5m/3 is never
\* half-way between two integers, so the nearest hundredth is unambiguous
hours_from_minutes(total_minutes) == (10 * total_minutes + 3) \div 6

\* get_rate_for_student looking the name up without trimming it
get_rate_for_student_untrimmed(student_name, service_name, mode_name, legacy_clients) ==
    LET legacy_lower ==
            {Lower(Strip(legacy_clients[i])) : i \in DOMAIN legacy_clients}
    IN  IF Lower(student_name) \in legacy_lower
        THEN [tier |-> "Legacy", rate |-> LEGACY_RATES[service_name]]
        ELSE [tier |-> "New", rate |-> NEW_RATES[service_name][mode_name]]

get_rate_for_student(student_name, service_name, mode_name, legacy_clients) ==
    LET legacy_lower ==
            {Lower(Strip(legacy_clients[i])) : i \in DOMAIN legacy_clients}
    IN  IF Lower(Strip(student_name)) \in legacy_lower
        THEN [tier |-> "Legacy", rate |-> LEGACY_RATES[service_name]]
        ELSE [tier |-> "New", rate |-> NEW_RATES[service_name][mode_name]]

RECURSIVE Pow2Mod100(_)
Pow2Mod100(e) == IF e = 0 THEN 1 ELSE (2 * Pow2Mod100(e - 1)) % 100

\* the exponent e with 2^52 <= (c/100) * 2^e < 2^53, for c >= 1
RECURSIVE ScaleUp(_, _)
ScaleUp(c, j) == IF c >= 100 THEN j ELSE ScaleUp(2 * c, j + 1)

RECURSIVE ScaleDown(_, _)
ScaleDown(c, k) == IF c < 200 THEN k ELSE ScaleDown(c \div 2, k + 1)

FloatShift(c) == IF c >= 100 THEN 52 - ScaleDown(c, 0) ELSE 52 + ScaleUp(c, 0)

\* round(x / 2.0, 2) in cents, where x is the binary64 float nearest to
\* c/100: the halving is exact, so an odd c is rounded towards the side on
\* which the float lies, and half-to-even when c/100 is itself a float
RoundHalf(c) ==
    IF c % 2 = 0 THEN c \div 2
    ELSE LET lo == (c - 1) \div 2
             r  == ((c % 100) * Pow2Mod100(FloatShift(c))) % 100
         IN  IF r = 0 THEN (IF lo % 2 = 0 THEN lo ELSE lo + 1)
             ELSE IF r < 50 THEN lo ELSE lo + 1

\* append_session paying a non-owner tutor half of amount_due even when the
\* session is free
PricingHalfOfDue(student, minutes, service, mode, tutor, paid_status_in, legacy_clients) ==
    LET hours_decimal == hours_from_minutes(minutes)
        tr            == get_rate_for_student(student, service, mode, legacy_clients)
        full_amount   == hours_decimal * tr.rate
        paid_status   == Strip(IF paid_status_in = <<>> THEN StrNotPaid
                               ELSE paid_status_in)
        is_free       == StartsWith(Lower(paid_status), StrFreeLower)
        amount_due    == IF is_free THEN 0 ELSE full_amount
        tutor_pay     == IF tutor = Nitin THEN amount_due
                         ELSE RoundHalf(amount_due)
    IN  [hours_decimal |-> hours_decimal,
         tier          |-> tr.tier,
         hourly_rate   |-> tr.rate * 100,
         full_amount   |-> full_amount,
         paid_status   |-> paid_status,
         is_free       |-> is_free,
         amount_due    |-> amount_due,
         tutor_pay     |-> tutor_pay,
         notes         |-> StrPay \o tutor \o <<" ", "$">> \o Fmt2(tutor_pay)]

\* lines 186-212 of append_session
Pricing(student, minutes, service, mode, tutor, paid_status_in, legacy_clients) ==
    LET hours_decimal == hours_from_minutes(minutes)
        tr            == get_rate_for_student(student, service, mode, legacy_clients)
        full_amount   == hours_decimal * tr.rate
        paid_status   == Strip(IF paid_status_in = <<>> THEN StrNotPaid
                               ELSE paid_status_in)
        is_free       == StartsWith(Lower(paid_status), StrFreeLower)
        amount_due    == IF is_free THEN 0 ELSE full_amount
        tutor_pay     == IF tutor = Nitin THEN amount_due
                         ELSE IF is_free THEN RoundHalf(full_amount)
                         ELSE RoundHalf(amount_due)
    IN  [hours_decimal |-> hours_decimal,
         tier          |-> tr.tier,
         hourly_rate   |-> tr.rate * 100,
         full_amount   |-> full_amount,
         paid_status   |-> paid_status,
         is_free       |-> is_free,
         amount_due    |-> amount_due,
         tutor_pay     |-> tutor_pay,
         notes         |-> StrPay \o tutor \o <<" ", "$">> \o Fmt2(tutor_pay)]

\* lines 215-225 of append_session: 1 + the number of rows of the same date
\* and student
Serial(existing, date_iso, student) ==
    Cardinality({i \in DOMAIN existing :
                    /\ existing[i].date = date_iso
                    /\ Lower(Strip(existing[i].student_name)) = Lower(student)})
    + 1

\* line 226 of append_session
SessionId(date_iso, student, serial) ==
    RemoveChar(date_iso, "-") \o <<"-">> \o
    ReplaceChar(Lower(student), " ", "_") \o <<"-">> \o IntStr(serial)

\* the row append_session builds from a read of the sheet (lines 186-249)
NewRow(existing, student, date_iso, minutes, service, mode, tutor, paid_status, legacy_clients) ==
    LET p == Pricing(student, minutes, service, mode, tutor, paid_status,
                     legacy_clients)
    IN  [id            |-> SessionId(date_iso, student,
                                     Serial(existing, date_iso, student)),
         student_name  |-> student,
         date          |-> date_iso,
         minutes       |-> minutes,
         hours_decimal |-> p.hours_decimal,
         service       |-> service,
         mode          |-> mode,
         tutor         |-> tutor,
         notes         |-> p.notes,
         rate_tier     |-> p.tier,
         rate          |-> p.hourly_rate,
         amount_due    |-> p.amount_due,
         paid_status   |-> p.paid_status]

\* lines 177-184 of append_session
Invalid(student, service, mode, tutor) ==
    \/ service \notin DOMAIN LEGACY_RATES
    \/ mode \notin MODES
    \/ student = <<>>
    \/ tutor = <<>>

(* --------------------------- return values ----------------------------- *)

NoRet ==
    [raised |-> FALSE, count |-> 0, tier |-> "", hourly_rate |-> 0,
     amount_due |-> 0, tutor_pay |-> 0, notes |-> <<>>]

Raised == [NoRet EXCEPT !.raised = TRUE]

Count(n) == [NoRet EXCEPT !.count = n]

PricingResult(p) ==
    [raised |-> FALSE, count |-> 0, tier |-> p.tier,
     hourly_rate |-> p.hourly_rate, amount_due |-> p.amount_due,
     tutor_pay |-> p.tutor_pay, notes |-> p.notes]
(* ------------------------- the worksheet ------------------------------- *)

COLUMNS ==
    <<"id", "student_name", "date", "minutes", "hours_decimal", "service",
      "mode", "tutor", "notes", "rate_tier", "rate", "amount_due",
      "paid_status">>

\* header.index(name) + 1; the header row always equals COLUMNS
ColIndex(name) == CHOOSE i \in DOMAIN COLUMNS : COLUMNS[i] = name

\* ws.insert_row(row, 2): the new row goes above the existing ones
InsertRowTop(ws, row) == <<row>> \o ws

\* ws.append_row(row): the new row goes below the last one
AppendRow(ws, row) == Append(ws, row)

\* ws.update_cell(row_num, col, value); sheet row 1 is the header, so sheet
\* row row_num is ws[row_num - 1]
UpdateCell(ws, row_num, col, value) ==
    [ws EXCEPT ![row_num - 1][COLUMNS[col]] = value]

\* a numeric cell whose text float() rejects, such as "n/a"; every other
\* numeric cell holds its value, a blank one holding 0 (float(x or 0))
NotANumber == -1

(* ------------------ dashboard: Submit Session handler ------------------ *)

\* PAID_OPTIONS of streamlit_app.py, the choices of the Paid Status box
PAID_OPTIONS == {StrNotPaid, StrPaid, StrFreeSession}

\* get_rate_for_student of streamlit_app.py (lines 190-194): the name is
\* trimmed and lower-cased, the legacy entries are lower-cased only
dashboard_get_rate_for_student(student_name, service_name, mode_name, legacy) ==
    IF Lower(Strip(student_name)) \in {Lower(legacy[i]) : i \in DOMAIN legacy}
    THEN [tier |-> "Legacy", rate |-> LEGACY_RATES[service_name]]
    ELSE [tier |-> "New", rate |-> NEW_RATES[service_name][mode_name]]

\* the checks of the handler that end in st.error (lines 450-460): a blank
\* student, an unknown service, and the KeyError of an unknown mode in the
\* lookup of a new client's rate
SubmitInvalid(student, service, mode, legacy) ==
    \/ Strip(student) = <<>>
    \/ service \notin DOMAIN LEGACY_RATES
    \/ /\ Lower(Strip(student)) \notin {Lower(legacy[i]) : i \in DOMAIN legacy}
       /\ mode \notin MODES

\* lines 477-488 of the handler: 1 + the number of rows of the same date and
\* student, both names trimmed
SubmitSerial(existing, date_iso, student) ==
    Cardinality({i \in DOMAIN existing :
                    /\ existing[i].date = date_iso
                    /\ Lower(Strip(existing[i].student_name))
                         = Lower(Strip(student))})
    + 1

\* the row the handler appends (lines 455-508), date and duration already
\* parsed
SubmitRow(existing, student, date_iso, minutes_val, service, mode, tutor, paid_status, notes, legacy) ==
    LET hours_decimal == hours_from_minutes(minutes_val)
        tr          == dashboard_get_rate_for_student(student, service, mode,
                                                      legacy)
        full_amount == hours_decimal * tr.rate
        is_free     == StartsWith(Lower(paid_status), StrFreeLower)
        amount_due  == IF is_free THEN 0 ELSE full_amount
        tutor_pay   == IF tutor = Nitin THEN amount_due
                       ELSE IF is_free THEN RoundHalf(full_amount)
                       ELSE RoundHalf(amount_due)
        auto_notes  == StrPay \o tutor \o <<" ", "$">> \o Fmt2(tutor_pay)
    IN  [id            |-> SessionId(date_iso, student,
                                     SubmitSerial(existing, date_iso, student)),
         student_name  |-> student,
         date          |-> date_iso,
         minutes       |-> minutes_val,
         hours_decimal |-> hours_decimal,
         service       |-> service,
         mode          |-> mode,
         tutor         |-> tutor,
         notes         |-> IF Strip(notes) = <<>> \/ StartsWith(notes, StrPay)
                           THEN auto_notes ELSE notes,
         rate_tier     |-> tr.tier,
         rate          |-> tr.rate * 100,
         amount_due    |-> amount_due,
         paid_status   |-> paid_status]

(* ------------------- unpaid / client payment logic --------------------- *)

\* the two status tests of list_unpaid_sessions without the second one: only
\* "paid" and "free session" are left out
UnpaidStatusLax(status) ==
    status \notin {StrPaidLower, StrFreeSessionLower}

\* the two status tests of list_unpaid_sessions (lines 278-283): TRUE when
\* the row is listed
UnpaidStatus(status) ==
    /\ status \notin {StrPaidLower, StrFreeSessionLower}
    /\ status \in {StrNotPaidLower, StrUnpaidLower, <<>>}

\* the dict list_unpaid_sessions appends for a row (lines 285-300)
UnpaidEntry(r) ==
    [id           |-> r.id,
     student_name |-> r.student_name,
     date         |-> r.date,
     service      |-> r.service,
     tutor        |-> r.tutor,
     amount_due   |-> IF r.amount_due = NotANumber THEN 0 ELSE r.amount_due,
     paid_status  |-> Strip(r.paid_status)]

\* the loop of list_unpaid_sessions over records (lines 274-300)
RECURSIVE UnpaidLoop(_, _, _)
UnpaidLoop(records, i, results) ==
    IF i > Len(records) THEN results
    ELSE LET r          == records[i]
             status_raw == Strip(r.paid_status)
             status     == Lower(status_raw)
         IN  UnpaidLoop(records, i + 1,
                        IF UnpaidStatus(status)
                        THEN Append(results, UnpaidEntry(r))
                        ELSE results)

list_unpaid_sessions(ws) == UnpaidLoop(ws, 1, <<>>)

\* the loop of mark_session_paid_by_id over all_values (lines 323-337)
RECURSIVE SessionPaidLoop(_, _, _, _, _, _)
SessionPaidLoop(ws, all_values, session_id, id_idx, paid_idx, row_num) ==
    IF row_num > Len(all_values) + 1 THEN [rows |-> ws, count |-> 0]
    ELSE LET row      == all_values[row_num - 1]
             r_id     == Strip(row[COLUMNS[id_idx]])
             r_status == Lower(Strip(row[COLUMNS[paid_idx]]))
         IN  IF r_id = session_id
             THEN IF r_status \notin {StrPaidLower, StrFreeSessionLower}
                  THEN [rows  |-> UpdateCell(ws, row_num, paid_idx, StrPaid),
                        count |-> 1]
                  ELSE [rows |-> ws, count |-> 0]
             ELSE SessionPaidLoop(ws, all_values, session_id, id_idx,
                                  paid_idx, row_num + 1)

\* mark_session_paid_by_id without the status test of line 332
mark_session_paid_by_id_any_status(ws, session_id_in) ==
    LET session_id == Strip(session_id_in)
        hits  == {i \in DOMAIN ws : Strip(ws[i].id) = session_id}
        first == CHOOSE i \in hits : \A j \in hits : i <= j
    IN  IF session_id = <<>> \/ hits = {} THEN [rows |-> ws, count |-> 0]
        ELSE [rows  |-> [ws EXCEPT ![first].paid_status = StrPaid],
              count |-> 1]

mark_session_paid_by_id(ws, session_id_in) ==
    LET session_id == Strip(session_id_in)
    IN  IF session_id = <<>> THEN [rows |-> ws, count |-> 0]
        ELSE SessionPaidLoop(ws, ws, session_id, ColIndex("id"),
                             ColIndex("paid_status"), 2)

\* the loop of mark_client_paid over all_values (lines 362-376)
RECURSIVE ClientPaidLoop(_, _, _, _, _, _)
ClientPaidLoop(ws, all_values, student_name, date_iso, row_num, updated) ==
    IF row_num > Len(all_values) + 1 THEN [rows |-> ws, count |-> updated]
    ELSE LET row       == all_values[row_num - 1]
             r_date    == Strip(row[COLUMNS[ColIndex("date")]])
             r_student == Strip(row[COLUMNS[ColIndex("student_name")]])
             r_status  == Lower(Strip(row[COLUMNS[ColIndex("paid_status")]]))
         IN  IF /\ r_date = date_iso
                /\ Lower(r_student) = Lower(student_name)
                /\ r_status \in {<<>>, StrNotPaidLower, StrUnpaidLower}
             THEN ClientPaidLoop(
                      UpdateCell(ws, row_num, ColIndex("paid_status"), StrPaid),
                      all_values, student_name, date_iso, row_num + 1,
                      updated + 1)
             ELSE ClientPaidLoop(ws, all_values, student_name, date_iso,
                                 row_num + 1, updated)

\* mark_client_paid without the date test of line 371
mark_client_paid_any_date(ws, student_name_in, date_iso_in) ==
    LET student_name == Strip(student_name_in)
        hits == {i \in DOMAIN ws :
                    /\ Lower(Strip(ws[i].student_name)) = Lower(student_name)
                    /\ Lower(Strip(ws[i].paid_status)) \in
                         {<<>>, StrNotPaidLower, StrUnpaidLower}}
    IN  [rows  |-> [i \in DOMAIN ws |->
                      IF i \in hits THEN [ws[i] EXCEPT !.paid_status = StrPaid]
                      ELSE ws[i]],
         count |-> Cardinality(hits)]

\* mark_client_paid without the status test of line 372
mark_client_paid_any_status(ws, student_name_in, date_iso_in) ==
    LET student_name == Strip(student_name_in)
        date_iso     == Strip(date_iso_in)
        hits == {i \in DOMAIN ws :
                    /\ Strip(ws[i].date) = date_iso
                    /\ Lower(Strip(ws[i].student_name)) = Lower(student_name)}
    IN  [rows  |-> [i \in DOMAIN ws |->
                      IF i \in hits THEN [ws[i] EXCEPT !.paid_status = StrPaid]
                      ELSE ws[i]],
         count |-> Cardinality(hits)]

mark_client_paid(ws, student_name_in, date_iso_in) ==
    LET student_name == Strip(student_name_in)
        date_iso     == Strip(date_iso_in)
    IN  IF student_name = <<>> \/ date_iso = <<>>
        THEN [rows |-> ws, count |-> 0]
        ELSE ClientPaidLoop(ws, ws, student_name, date_iso, 2, 0)

(* ------------------------ weekly payroll logic ------------------------- *)

\* the try block around float(...) of the aggregations (lines 425-430 and
\* 537-542): TRUE when the three conversions succeed
NumbersParse(r) ==
    /\ r.hours_decimal # NotANumber
    /\ r.rate # NotANumber
    /\ r.amount_due # NotANumber

\* tutor_earn of a row of another tutor than the owner, always half of
\* amount_due
HalfEarnOfDueOnly(r) == 100 * r.amount_due

\* tutor_earn of a row of another tutor than the owner (lines 432-442 and
\* 544-560), in units of 1/20000 dollar: hours_decimal (hundredths) times rate
\* (cents) is full_value in 1/10000 dollar, and half a cent is 100 units
HalfEarn(r) ==
    LET paid_status == Lower(Strip(r.paid_status))
        is_free     == StartsWith(paid_status, StrFreeLower)
        full_value  == r.hours_decimal * r.rate
    IN  IF is_free THEN full_value ELSE 100 * r.amount_due

\* totals[key] = totals.get(key, 0.0) + amount
DictAdd(totals, key, amount) ==
    IF key \in DOMAIN totals
    THEN [totals EXCEPT ![key] = @ + amount]
    ELSE [k \in DOMAIN totals \cup {key} |->
             IF k = key THEN amount ELSE totals[k]]

\* the tests of the loop of compute_weekly_tutor_totals without the try
\* block around float(...)
WeeklySkipNoTry(r, start_dt, end_dt) ==
    LET tutor    == Strip(r.tutor)
        date_str == Strip(r.date)
    IN  IF tutor = <<>> \/ tutor = Nitin THEN TRUE
        ELSE IF date_str = <<>> THEN TRUE
        ELSE ~(/\ start_dt <= ParseISO(date_str)
               /\ ParseISO(date_str) <= end_dt)

\* the tests of the loop of compute_weekly_tutor_totals that end in continue
\* (lines 409-430)
WeeklySkip(r, start_dt, end_dt) ==
    LET tutor    == Strip(r.tutor)
        date_str == Strip(r.date)
    IN  IF tutor = <<>> \/ tutor = Nitin THEN TRUE
        ELSE IF date_str = <<>> THEN TRUE
        ELSE IF ~(/\ start_dt <= ParseISO(date_str)
                  /\ ParseISO(date_str) <= end_dt) THEN TRUE
        ELSE ~NumbersParse(r)

\* the loop of compute_weekly_tutor_totals over records (lines 408-444)
RECURSIVE WeeklyTotalsLoop(_, _, _, _, _)
WeeklyTotalsLoop(records, start_dt, end_dt, i, totals) ==
    IF i > Len(records) THEN totals
    ELSE LET r == records[i]
         IN  WeeklyTotalsLoop(records, start_dt, end_dt, i + 1,
                              IF WeeklySkip(r, start_dt, end_dt) THEN totals
                              ELSE DictAdd(totals, Strip(r.tutor),
                                           HalfEarn(r)))

\* the totals are sums of binary64 numbers in the code; they are kept here as
\* the exact sums, from which the code's results differ by less than 1e-9
compute_weekly_tutor_totals(ws, sunday_iso) ==
    LET w == week_range_from_sunday(sunday_iso)
    IN  [start  |-> w.start,
         end    |-> w.end,
         totals |-> WeeklyTotalsLoop(ws, ParseISO(w.start), ParseISO(w.end),
                                     1, [k \in {} |-> 0])]

\* the loop of mark_tutor_notes_paid over all_values (lines 470-493)
RECURSIVE TutorNotesLoop(_, _, _, _, _, _)
TutorNotesLoop(ws, all_values, start_dt, end_dt, row_num, updated) ==
    IF row_num > Len(all_values) + 1 THEN [rows |-> ws, count |-> updated]
    ELSE LET row     == all_values[row_num - 1]
             r_date  == Strip(row[COLUMNS[ColIndex("date")]])
             r_notes == Strip(row[COLUMNS[ColIndex("notes")]])
             hit     == /\ r_date # <<>>
                        /\ start_dt <= ParseISO(r_date)
                        /\ ParseISO(r_date) <= end_dt
                        /\ StartsWith(r_notes, StrPay)
         IN  IF hit
             THEN TutorNotesLoop(
                      UpdateCell(ws, row_num, ColIndex("notes"),
                                 ReplaceFirst(r_notes, StrPay, StrPaidSp)),
                      all_values, start_dt, end_dt, row_num + 1, updated + 1)
             ELSE TutorNotesLoop(ws, all_values, start_dt, end_dt,
                                 row_num + 1, updated)

\* a variant whose window starts a day early (sunday - 7 days)
mark_tutor_notes_paid_wide(ws, sunday_iso) ==
    LET w == week_range_from_sunday(sunday_iso)
    IN  TutorNotesLoop(ws, ws, ParseISO(w.start) - 1, ParseISO(w.end), 2, 0)

mark_tutor_notes_paid(ws, sunday_iso) ==
    LET w == week_range_from_sunday(sunday_iso)
    IN  TutorNotesLoop(ws, ws, ParseISO(w.start), ParseISO(w.end), 2, 0)

(* -------------------------- monthly summary ---------------------------- *)

\* the characters of the model in the order of their code points, which is
\* the order sorted() compares strings by
CharOrder ==
    <<" ", "-">> \o DigitChars \o UpperChars \o <<"_">> \o LowerChars

CharCode(c) == CHOOSE i \in DOMAIN CharOrder : CharOrder[i] = c

\* a < b for two strings
RECURSIVE StrLess(_, _)
StrLess(a, b) ==
    IF a = <<>> THEN b # <<>>
    ELSE IF b = <<>> THEN FALSE
    ELSE IF Head(a) = Head(b) THEN StrLess(Tail(a), Tail(b))
    ELSE CharCode(Head(a)) < CharCode(Head(b))

\* sorted(keys)
RECURSIVE Sorted(_)
Sorted(keys) ==
    IF keys = {} THEN <<>>
    ELSE LET m == CHOOSE x \in keys : \A y \in keys \ {x} : StrLess(x, y)
         IN  <<m>> \o Sorted(keys \ {m})

\* f"{total:.2f}" of a total kept in units of 1/20000 dollar, in cents. A
\* total that is no half cent goes to the nearest cent. A half cent that is a
\* multiple of 1/8 dollar is held exactly by binary64, as are the amounts
\* adding up to it, and goes to the even cent. For any other half cent the
\* digit depends on the rounding error of the binary sum, and the operator is
\* not defined.
FmtMagnitude(u) ==
    LET q == u \div 200
        r == u % 200
    IN  CASE r < 100 -> q
          [] r > 100 -> q + 1
          [] r = 100 /\ u % 2500 = 0 -> (IF q % 2 = 0 THEN q ELSE q + 1)

FmtTotal(u) == IF u < 0 THEN 0 - FmtMagnitude(0 - u) ELSE FmtMagnitude(u)

\* nitin_contrib with the subsidy of a free session added instead of
\* subtracted
NitinContribSubsidyAdded(r, tutor) ==
    IF tutor = Nitin THEN 200 * r.amount_due
    ELSE IF StartsWith(Lower(Strip(r.paid_status)), StrFreeLower)
         THEN r.hours_decimal * r.rate
         ELSE 100 * r.amount_due

\* nitin_contrib with the whole amount_due of another tutor's paid session
\* kept by the business
NitinContribWholeDue(r, tutor) ==
    IF tutor = Nitin THEN 200 * r.amount_due
    ELSE IF StartsWith(Lower(Strip(r.paid_status)), StrFreeLower)
         THEN 0 - r.hours_decimal * r.rate
         ELSE 200 * r.amount_due

\* nitin_contrib (lines 562-572), in units of 1/20000 dollar
NitinContrib(r, tutor) ==
    IF tutor = Nitin THEN 200 * r.amount_due
    ELSE IF StartsWith(Lower(Strip(r.paid_status)), StrFreeLower)
         THEN 0 - r.hours_decimal * r.rate
         ELSE 100 * r.amount_due

\* what month_free_cost[ym] grows by (lines 566-570)
FreeCost(r, tutor) ==
    IF tutor # Nitin /\ StartsWith(Lower(Strip(r.paid_status)), StrFreeLower)
    THEN r.hours_decimal * r.rate
    ELSE 0

\* the three dictionaries before the loop (lines 522-524)
NoMonths ==
    [month_tutor_totals   |-> [ym \in {} |-> [t \in {} |-> 0]],
     month_nitin_business |-> [ym \in {} |-> 0],
     month_free_cost      |-> [ym \in {} |-> 0]]

\* the loop of update_tutor_summary_sheet over records (lines 526-575)
RECURSIVE MonthlyLoop(_, _, _)
MonthlyLoop(records, i, acc) ==
    IF i > Len(records) THEN acc
    ELSE LET r        == records[i]
             tutor    == Strip(r.tutor)
             date_str == Strip(r.date)
             skip     == \/ tutor = <<>>
                         \/ Len(date_str) < 7
                         \/ ~NumbersParse(r)
             ym       == SubSeq(date_str, 1, 7)
             tutor_earn == IF tutor = Nitin THEN 200 * r.amount_due
                           ELSE HalfEarn(r)
             seen     == ym \in DOMAIN acc.month_tutor_totals
             of_month == IF seen THEN acc.month_tutor_totals[ym]
                         ELSE [t \in {} |-> 0]
         IN  MonthlyLoop(records, i + 1,
                 IF skip THEN acc
                 ELSE [month_tutor_totals |->
                           [m \in DOMAIN acc.month_tutor_totals \cup {ym} |->
                               IF m = ym
                               THEN DictAdd(of_month, tutor, tutor_earn)
                               ELSE acc.month_tutor_totals[m]],
                       month_nitin_business |->
                           DictAdd(acc.month_nitin_business, ym,
                                   NitinContrib(r, tutor)),
                       month_free_cost |->
                           DictAdd(acc.month_free_cost, ym,
                                   FreeCost(r, tutor))])

\* a row of the tutor_summary sheet: kind stands for the fixed labels
\* ("Month: <name>", "Tutor" / "Tutor Earnings", a tutor's name, "Free Session
\* Cost", "Nitin Business Earnings", and the empty row), name is the month or
\* the tutor, amount the second cell in cents
SummaryRow(kind, name, amount) ==
    [kind |-> kind, name |-> name, amount |-> amount]

\* the rows of one month (lines 580-589)
MonthRows(acc, ym) ==
    LET tutors == Sorted(DOMAIN acc.month_tutor_totals[ym])
    IN  <<SummaryRow("month", ym, 0), SummaryRow("header", <<>>, 0)>>
        \o [k \in DOMAIN tutors |->
               SummaryRow("tutor", tutors[k],
                          FmtTotal(acc.month_tutor_totals[ym][tutors[k]]))]
        \o <<SummaryRow("free_cost", <<>>, FmtTotal(acc.month_free_cost[ym])),
             SummaryRow("business", <<>>,
                        FmtTotal(acc.month_nitin_business[ym])),
             SummaryRow("blank", <<>>, 0)>>

\* the loop building rows over the sorted months (lines 578-589)
RECURSIVE BuildRows(_, _, _)
BuildRows(acc, months, k) ==
    IF k > Len(months) THEN <<>>
    ELSE MonthRows(acc, months[k]) \o BuildRows(acc, months, k + 1)

\* the rows update_tutor_summary_sheet computes from the sessions sheet
SummaryRows(records) ==
    LET acc == MonthlyLoop(records, 1, NoMonths)
    IN  BuildRows(acc, Sorted(DOMAIN acc.month_tutor_totals), 1)

\* summary_ws.update(...) without the summary_ws.clear() before it: rows
\* below the new ones stay
WriteSummaryNoClear(old, rows) ==
    rows \o SubSeq(old, Len(rows) + 1, Len(old))

\* summary_ws.clear() and summary_ws.update("A1:C<n>", rows) (lines 591-593)
WriteSummary(old, rows) == rows

(* ------------------------------ inputs --------------------------------- *)

StuAB == <<"a"," ","b">>

StuCaps == <<"A"," ","B">>

StuUnder == <<"a","_","b">>

StuTrail == <<"a"," ","b"," ">>

Aryan == <<"A","r","y","a","n">>

Neha == <<"N","e","h","a">>

D0302 == <<"2","0","2","5","-","0","3","-","0","2">>

D0308 == <<"2","0","2","5","-","0","3","-","0","8">>

D0309 == <<"2","0","2","5","-","0","3","-","0","9">>

D0303 == <<"2","0","2","5","-","0","3","-","0","3">>

D0228 == <<"2","0","2","5","-","0","2","-","2","8">>

Students == {StuAB, StuCaps, StuUnder, StuTrail}

Dates == {D0302, D0309}

\* week-ending dates: windows 02-24..03-02, 03-02..03-08 and 03-03..03-09
Sundays == {D0302, D0308, D0309}

Tutors == {Nitin, Aryan}

\* "" (defaults to Not Paid), " " (stored blank), and the spellings the code
\* tests for
PaidInputs == {<<>>, <<" ">>, StrUnpaid, StrFreeSession, StrFree}

\* names a caller settles by: another case of "a b", and the underscore name
ClientNames == {StuCaps, StuUnder}

\* ids a caller can pass: those on the sheet, a blank and an unknown one
SessionIdInputs == {store[i].id : i \in DOMAIN store} \cup {<<>>, <<"x">>}

(* --------------------------- state machine ----------------------------- *)

Procs == {1, 2}

EmptyRow ==
    [id |-> <<>>, student_name |-> <<>>, date |-> <<>>, minutes |-> 0,
     hours_decimal |-> 0, service |-> "", mode |-> "", tutor |-> <<>>,
     notes |-> <<>>, rate_tier |-> "", rate |-> 0, amount_due |-> 0,
     paid_status |-> <<>>]

IdleProc ==
    [pc |-> "idle", row |-> EmptyRow, result |-> NoRet, readLen |-> 0,
     wroteAt |-> 0, call |-> "none", seen |-> <<>>, writes |-> <<>>,
     lenAtWrite |-> 0]

Init ==
    /\ store = <<>>
    /\ summary = <<>>
    /\ op = "none"
    /\ ret = NoRet
    /\ procs = [p \in Procs |-> IdleProc]

\* append_session, run to completion
AppendSession(student, date_iso, minutes, service, mode, tutor, paid_status, legacy_clients) ==
    /\ Len(store) < MaxRows
    /\ IF Invalid(student, service, mode, tutor)
       THEN /\ store' = store
            /\ ret' = Raised
       ELSE /\ store' = AppendRow(store,
                            NewRow(store, student, date_iso, minutes, service,
                                   mode, tutor, paid_status, legacy_clients))
            /\ ret' = PricingResult(Pricing(student, minutes, service, mode,
                                            tutor, paid_status, legacy_clients))
    /\ op' = "append_session"
    /\ UNCHANGED <<summary, procs>>

MarkSessionPaidById(session_id) ==
    LET r == mark_session_paid_by_id(store, session_id)
    IN  /\ store' = r.rows
        /\ ret' = Count(r.count)
        /\ op' = "mark_session_paid_by_id"
        /\ UNCHANGED <<summary, procs>>

MarkClientPaid(student_name, date_iso) ==
    LET r == mark_client_paid(store, student_name, date_iso)
    IN  /\ store' = r.rows
        /\ ret' = Count(r.count)
        /\ op' = "mark_client_paid"
        /\ UNCHANGED <<summary, procs>>

MarkTutorNotesPaid(sunday_iso) ==
    LET r == mark_tutor_notes_paid(store, sunday_iso)
    IN  /\ store' = r.rows
        /\ ret' = Count(r.count)
        /\ op' = "mark_tutor_notes_paid"
        /\ UNCHANGED <<summary, procs>>

ComputeWeeklyTutorTotals(sunday_iso) ==
    /\ ret' = compute_weekly_tutor_totals(store, sunday_iso)
    /\ op' = "compute_weekly_tutor_totals"
    /\ UNCHANGED <<store, summary, procs>>

\* update_tutor_summary_sheet on a spreadsheet that has a sessions sheet
UpdateTutorSummarySheet ==
    LET rows == SummaryRows(store)
    IN  /\ summary' = WriteSummary(summary, rows)
        /\ ret' = [rows |-> rows]
        /\ op' = "update_tutor_summary_sheet"
        /\ UNCHANGED <<store, procs>>

ListUnpaidSessions ==
    /\ ret' = [results |-> list_unpaid_sessions(store)]
    /\ op' = "list_unpaid_sessions"
    /\ UNCHANGED <<store, summary, procs>>

ParseDuration(minutes_text, hhmm_text) ==
    /\ ret' = parse_duration(minutes_text, hhmm_text)
    /\ op' = "parse_duration"
    /\ UNCHANGED <<store, summary, procs>>

\* the Submit Session handler of the dashboard, run to completion: it shows
\* an error and appends nothing, or appends its row
SubmitSession(student, date_iso, minutes_val, service, mode, tutor, paid_status, notes, legacy) ==
    /\ Len(store) < MaxRows
    /\ IF SubmitInvalid(student, service, mode, legacy)
       THEN /\ store' = store
            /\ ret' = Raised
       ELSE /\ store' = AppendRow(store,
                            SubmitRow(store, student, date_iso, minutes_val,
                                      service, mode, tutor, paid_status, notes,
                                      legacy))
            /\ ret' = NoRet
    /\ op' = "submit_session"
    /\ UNCHANGED <<summary, procs>>

\* a caller logs a session of the duration it has just parsed
AppendParsedSession ==
    /\ op = "parse_duration"
    /\ ~ret.raised
    /\ AppendSession(StuAB, D0309, ret.value, "SAT & ACT Prep", "Online",
                     Aryan, <<>>, <<>>)

\* someone overwrites a numeric cell of the sessions sheet by hand with text
\* that is no number; the sheet holds at most one such cell
EditCell(i, col) ==
    /\ \A j \in DOMAIN store : NumbersParse(store[j])
    /\ store' = [store EXCEPT ![i][col] = NotANumber]
    /\ op' = "edit_cell"
    /\ ret' = NoRet
    /\ UNCHANGED <<summary, procs>>

\* the ledger: every operation runs to completion before the next begins
Next ==
    \/ \E paid_status \in PaidInputs :
          AppendSession(StuAB, D0309, 100, "SAT & ACT Prep", "Online", Aryan,
                        paid_status, <<>>)
    \/ \E session_id \in SessionIdInputs : MarkSessionPaidById(session_id)
    \/ \E student \in ClientNames : MarkClientPaid(student, D0309)
    \/ \E sunday_iso \in {D0308, D0309} : MarkTutorNotesPaid(sunday_iso)

Spec == Init /\ [][Next]_vars

\* session identity: appends for several spellings of a name, settled by id
NextIds ==
    \/ \E student \in Students, date_iso \in Dates :
          AppendSession(student, date_iso, 100, "SAT & ACT Prep", "Online",
                        Aryan, <<>>, <<>>)
    \/ \E session_id \in SessionIdInputs : MarkSessionPaidById(session_id)

SpecIds == Init /\ [][NextIds]_vars

\* weekly payroll notes: sessions of both kinds of tutor around the window
NextNotes ==
    \/ \E date_iso \in Dates, tutor \in Tutors :
          AppendSession(StuAB, date_iso, 100, "SAT & ACT Prep", "Online",
                        tutor, <<>>, <<>>)
    \/ \E sunday_iso \in Sundays : MarkTutorNotesPaid(sunday_iso)

SpecNotes == Init /\ [][NextNotes]_vars

\* client payments: two students, one with a trailing space in the name, on
\* two dates and in every unsettled and one settled status
NextClient ==
    \/ \E student \in {StuTrail, StuUnder}, date_iso \in Dates,
          paid_status \in {<<>>, <<" ">>, StrUnpaid, StrFreeSession} :
          AppendSession(student, date_iso, 100, "SAT & ACT Prep", "Online",
                        Aryan, paid_status, <<>>)
    \/ \E student \in ClientNames, date_iso \in Dates :
          MarkClientPaid(student, date_iso)

SpecClient == Init /\ [][NextClient]_vars
\* pricing: the first session on an empty sheet, for every kind of input
NextPricing ==
    /\ Len(store) = 0
    /\ \E minutes \in {45, 60, 100}, service \in SERVICES, mode \in MODES,
          tutor \in Tutors, paid_status \in {<<>>, StrFreeSession, StrFree},
          legacy_clients \in {<<>>, <<StuCaps>>} :
          AppendSession(StuAB, D0309, minutes, service, mode, tutor,
                        paid_status, legacy_clients)

SpecPricing == Init /\ [][NextPricing]_vars


\* weekly payroll totals: paid and free sessions of the owner and of two other
\* tutors, dated on both edges of the windows asked for
NextWeekly ==
    \/ \E date_iso \in Dates, tutor \in {Nitin, Aryan, Neha},
          paid_status \in {<<>>, StrFreeSession} :
          AppendSession(StuAB, date_iso, 100, "SAT & ACT Prep", "Online",
                        tutor, paid_status, <<>>)
    \/ \E sunday_iso \in Sundays : ComputeWeeklyTutorTotals(sunday_iso)

SpecWeekly == Init /\ [][NextWeekly]_vars

\* a tutor_summary sheet left by an earlier rebuild, over sessions of two
\* months of 2024 that are no longer on the sessions sheet
StaleSummary ==
    <<SummaryRow("month", <<"2","0","2","4","-","1","1">>, 0),
      SummaryRow("header", <<>>, 0),
      SummaryRow("tutor", Aryan, 1750),
      SummaryRow("free_cost", <<>>, 0),
      SummaryRow("business", <<>>, 1750),
      SummaryRow("blank", <<>>, 0),
      SummaryRow("month", <<"2","0","2","4","-","1","2">>, 0),
      SummaryRow("header", <<>>, 0),
      SummaryRow("tutor", Nitin, 3500),
      SummaryRow("free_cost", <<>>, 0),
      SummaryRow("business", <<>>, 3500),
      SummaryRow("blank", <<>>, 0)>>

\* an empty sessions sheet next to a tutor_summary sheet that is new or stale
InitSummary ==
    /\ store = <<>>
    /\ summary \in {<<>>, StaleSummary}
    /\ op = "none"
    /\ ret = NoRet
    /\ procs = [p \in Procs |-> IdleProc]

\* monthly summary: paid and free sessions of 45 minutes of the owner and of
\* two other tutors, in two months entered in any order
NextSummary ==
    \/ \E date_iso \in {D0228, D0309}, tutor \in {Nitin, Aryan, Neha},
          paid_status \in {<<>>, StrFreeSession} :
          AppendSession(StuAB, date_iso, 45, "SAT & ACT Prep", "Online",
                        tutor, paid_status, <<>>)
    \/ UpdateTutorSummarySheet

SpecSummary == InitSummary /\ [][NextSummary]_vars

\* the unpaid list: sessions entered with every status the code tells apart
\* and two it does not know
NextUnpaid ==
    \/ \E date_iso \in Dates,
          paid_status \in {<<>>, <<" ">>, StrUnpaid, StrPaid, StrFreeSession,
                           StrFree, StrWeird} :
          AppendSession(StuAB, date_iso, 100, "SAT & ACT Prep", "Online",
                        Aryan, paid_status, <<>>)
    \/ ListUnpaidSessions

SpecUnpaid == Init /\ [][NextUnpaid]_vars

\* legacy lists: none, one naming "a b" in capitals, one naming "a_b"
LegacyLists == {<<>>, <<StuCaps>>, <<StuUnder>>}

\* rate tiers: the first session on an empty sheet, paid or free, for three
\* spellings of a name, every service and mode, and three legacy lists
NextTier ==
    /\ Len(store) = 0
    /\ \E student \in {StuAB, StuTrail, StuUnder}, minutes \in {60, 100},
          service \in SERVICES, mode \in MODES,
          paid_status \in {<<>>, StrFreeSession},
          legacy_clients \in LegacyLists :
          AppendSession(student, D0309, minutes, service, mode, Aryan,
                        paid_status, legacy_clients)

SpecTier == Init /\ [][NextTier]_vars

\* what a caller may type for a name: a name, nothing, or a single space
NameInputs(name) == {name, <<>>, <<" ">>}

\* a known and an unknown service
ServiceInputs == {"SAT & ACT Prep", "Chess"}

\* a known and an unknown mode
ModeInputs == {"Online", "Hybrid"}

\* validation: sessions entered with known and unknown services and modes and
\* with named, empty and blank students and tutors
NextValidate ==
    \/ \E student \in NameInputs(StuAB), date_iso \in Dates,
          service \in ServiceInputs, mode \in ModeInputs,
          tutor \in NameInputs(Aryan), paid_status \in {<<>>, StrFreeSession} :
          AppendSession(student, date_iso, 100, service, mode, tutor,
                        paid_status, <<>>)

SpecValidate == Init /\ [][NextValidate]_vars

\* settling by id: sessions of two students whose names differ by a space
\* and an underscore, entered unpaid, paid or free, and settled by id
NextSettle ==
    \/ \E student \in {StuAB, StuUnder}, date_iso \in Dates,
          paid_status \in {<<>>, StrPaid, StrFreeSession} :
          AppendSession(student, date_iso, 100, "SAT & ACT Prep", "Online",
                        Aryan, paid_status, <<>>)
    \/ \E session_id \in SessionIdInputs : MarkSessionPaidById(session_id)

SpecSettle == Init /\ [][NextSettle]_vars

\* texts of the Minutes field: empty, blank, a count with and without
\* spaces around it, zero, a negative count, and text that is no number
MinutesTexts ==
    {<<>>, <<" ">>, <<"9","0">>, <<" ","4","5"," ">>, <<"1","0","0">>,
     <<"0">>, <<"-","5">>, <<"a","b","c">>}

\* texts of the HH:MM field: empty, well-formed durations, one without a
\* colon, minute parts of 60 and below 0, totals of 0 and below, and a
\* second colon
HhmmTexts ==
    {<<>>, <<"1",":","3","0">>, <<" ","2",":","0","5"," ">>, <<"0",":","4","5">>,
     <<"1",":","0","0">>,
     <<"1","3","0">>, <<"1",":","6","0">>, <<"1",":","-","5">>,
     <<"0",":","0","0">>, <<"-","1",":","3","0">>, <<"1",":","3",":","0">>}

\* durations: the two fields are parsed, and a session of the duration
\* returned is logged
NextDuration ==
    \/ \E minutes_text \in MinutesTexts, hhmm_text \in HhmmTexts :
          ParseDuration(minutes_text, hhmm_text)
    \/ AppendParsedSession

SpecDuration == Init /\ [][NextDuration]_vars

\* reports over an edited sheet: paid and free sessions of the owner and of
\* another tutor, one numeric cell overwritten by hand, and both aggregations
NextEdited ==
    \/ \E tutor \in Tutors, paid_status \in {<<>>, StrFreeSession} :
          AppendSession(StuAB, D0309, 45, "SAT & ACT Prep", "Online", tutor,
                        paid_status, <<>>)
    \/ \E i \in DOMAIN store, col \in {"hours_decimal", "rate", "amount_due"} :
          EditCell(i, col)
    \/ ComputeWeeklyTutorTotals(D0309)
    \/ UpdateTutorSummarySheet

SpecEdited == Init /\ [][NextEdited]_vars

\* settling and settling again: rows of both kinds of tutor in settled and
\* unsettled statuses, and every operation that writes a status or a note
NextAbsorb ==
    \/ \E tutor \in Tutors,
          paid_status \in {<<>>, StrPaid, StrFreeSession, StrFree} :
          AppendSession(StuAB, D0309, 100, "SAT & ACT Prep", "Online", tutor,
                        paid_status, <<>>)
    \/ \E session_id \in SessionIdInputs : MarkSessionPaidById(session_id)
    \/ MarkClientPaid(StuCaps, D0309)
    \/ \E sunday_iso \in {D0308, D0309} : MarkTutorNotesPaid(sunday_iso)

SpecAbsorb == Init /\ [][NextAbsorb]_vars

\* the sessions entered for the revenue of a month: a paid session of the
\* owner, of two other tutors and of a blank tutor name in March, and paid
\* and free (entered as "Free") sessions of another tutor in either month
RevenueInputs ==
    {<<D0309, Nitin, <<>>>>, <<D0309, Neha, <<>>>>, <<D0309, <<" ">>, <<>>>>,
     <<D0309, Aryan, <<>>>>, <<D0309, Aryan, StrFree>>,
     <<D0228, Aryan, <<>>>>, <<D0228, Aryan, StrFree>>}

\* revenue of a month: sessions of 45 minutes, settled by id or by client,
\* with the summary rebuilt at any point (the notes are no input of it)
NextRevenue ==
    \/ \E in \in RevenueInputs :
          AppendSession(StuAB, in[1], 45, "SAT & ACT Prep", "Online", in[2],
                        in[3], <<>>)
    \/ \E session_id \in {store[i].id : i \in DOMAIN store} :
          MarkSessionPaidById(session_id)
    \/ MarkClientPaid(StuCaps, D0309)
    \/ UpdateTutorSummarySheet

SpecRevenue == Init /\ [][NextRevenue]_vars

(* ----------------------- concurrent callers --------------------------- *)

\* an append whose id is recomputed from the sheet at the moment of writing
PendingAppendReserial(ws, row) ==
    AppendRow(ws, [row EXCEPT !.id =
                      SessionId(row.date, row.student_name,
                                Serial(ws, row.date, row.student_name))])

\* ws.append_row of the row built from the earlier read (lines 233-249)
PendingAppend(ws, row) == AppendRow(ws, row)

Pending == {p \in Procs : procs[p].pc = "read"}

\* append_session up to ws.get_all_records() (line 215): the caller has
\* priced the session and counted the serial on the rows it read
AppendRead(p, student, date_iso, minutes, service, mode, tutor, paid_status, legacy_clients) ==
    /\ procs[p].pc = "idle"
    /\ Len(store) + Cardinality(Pending) < MaxRows
    /\ ~Invalid(student, service, mode, tutor)
    /\ procs' = [procs EXCEPT ![p] =
                    [pc      |-> "read",
                     row     |-> NewRow(store, student, date_iso, minutes,
                                        service, mode, tutor, paid_status,
                                        legacy_clients),
                     result  |-> PricingResult(
                                     Pricing(student, minutes, service, mode,
                                             tutor, paid_status, legacy_clients)),
                     readLen |-> Len(store),
                     wroteAt |-> 0,
                     call    |-> "append_session",
                     seen    |-> <<>>,
                     writes  |-> <<>>,
                     lenAtWrite |-> 0]]
    /\ UNCHANGED <<store, summary, op, ret>>

\* the rest of append_session: ws.append_row and the return (lines 233-257)
AppendWrite(p) ==
    /\ procs[p].pc = "read"
    /\ store' = PendingAppend(store, procs[p].row)
    /\ procs' = [procs EXCEPT ![p].pc = "idle", ![p].wroteAt = Len(store) + 1]
    /\ op' = "append_session"
    /\ ret' = procs[p].result
    /\ UNCHANGED summary

\* the cell a mark operation writes in a row: the loops write paid_status
\* (lines 333, 373) or notes (line 490)
WrittenCol(before, after) ==
    IF before.paid_status # after.paid_status THEN ColIndex("paid_status")
    ELSE ColIndex("notes")

\* the ws.update_cell(row_num, col, value) calls a mark operation makes, in
\* the order of its loop over the rows it read: one for every row that the
\* operation, run on the rows read, changes
RECURSIVE CellWrites(_, _, _)
CellWrites(all_values, marked, i) ==
    IF i > Len(all_values) THEN <<>>
    ELSE (IF marked[i] = all_values[i] THEN <<>>
          ELSE LET col == WrittenCol(all_values[i], marked[i])
               IN  <<[row_num |-> i + 1, col |-> col,
                      value |-> marked[i][COLUMNS[col]]]>>)
         \o CellWrites(all_values, marked, i + 1)

\* a mark operation up to the end of ws.get_all_values() (lines 321, 359,
\* 467): the caller holds the rows it read and the cells it is going to write
MarkRead(p, call, r) ==
    /\ procs[p].pc = "idle"
    /\ procs' = [procs EXCEPT ![p] =
                    [IdleProc EXCEPT !.pc     = "marking",
                                     !.call   = call,
                                     !.seen   = store,
                                     !.writes = CellWrites(store, r.rows, 1),
                                     !.result = Count(r.count)]]
    /\ UNCHANGED <<store, summary, op, ret>>

MarkSessionPaidByIdRead(p, session_id) ==
    MarkRead(p, "mark_session_paid_by_id",
             mark_session_paid_by_id(store, session_id))

MarkClientPaidRead(p, student_name, date_iso) ==
    MarkRead(p, "mark_client_paid",
             mark_client_paid(store, student_name, date_iso))

MarkTutorNotesPaidRead(p, sunday_iso) ==
    MarkRead(p, "mark_tutor_notes_paid",
             mark_tutor_notes_paid(store, sunday_iso))

\* the next ws.update_cell of the loop, by the row number of the rows read
\* (lines 333, 373, 490); lenAtWrite records how long the sheet was then
MarkWrite(p) ==
    /\ procs[p].pc = "marking"
    /\ procs[p].writes # <<>>
    /\ LET w == Head(procs[p].writes)
       IN  store' = UpdateCell(store, w.row_num, w.col, w.value)
    /\ procs' = [procs EXCEPT ![p].writes = Tail(procs[p].writes),
                             ![p].lenAtWrite = Len(store)]
    /\ UNCHANGED <<summary, op, ret>>

\* the loop is over and the operation returns its count (lines 335-337, 376,
\* 493)
MarkReturn(p) ==
    /\ procs[p].pc = "marking"
    /\ procs[p].writes = <<>>
    /\ procs' = [procs EXCEPT ![p].pc = "idle"]
    /\ op' = procs[p].call
    /\ ret' = procs[p].result
    /\ UNCHANGED <<store, summary>>

\* two callers of append_session sharing the sheet without any lock
NextConc ==
    \/ \E p \in Procs, student \in {StuAB, StuCaps}, date_iso \in Dates :
          AppendRead(p, student, date_iso, 100, "SAT & ACT Prep", "Online",
                     Aryan, <<>>, <<>>)
    \/ \E p \in Procs : AppendWrite(p)

SpecConc == Init /\ [][NextConc]_vars

\* a caller of a mark operation sharing the sheet with callers of
\* append_session, whose appends run between its read and its writes
NextMarks ==
    \/ \E tutor \in Tutors, paid_status \in {<<>>, StrPaid} :
          AppendSession(StuAB, D0309, 100, "SAT & ACT Prep", "Online", tutor,
                        paid_status, <<>>)
    \/ \E session_id \in SessionIdInputs : MarkSessionPaidByIdRead(1, session_id)
    \/ MarkClientPaidRead(1, StuCaps, D0309)
    \/ MarkTutorNotesPaidRead(1, D0309)
    \/ MarkWrite(1)
    \/ MarkReturn(1)

SpecMarks == Init /\ [][NextMarks]_vars

\* names entered in the Student box: plain, in capitals, and with a space
\* left at the end
PathStudents == {StuAB, StuCaps, StuTrail}

\* the two ways of logging a session, used in any order on one sheet, for
\* the same choices of student, status, tutor and legacy list
NextPaths ==
    \/ \E student \in PathStudents, paid_status \in PAID_OPTIONS,
          tutor \in Tutors, legacy \in {<<>>, <<StuCaps>>} :
          AppendSession(student, D0309, 100, "SAT & ACT Prep", "Online",
                        tutor, paid_status, legacy)
    \/ \E student \in PathStudents, paid_status \in PAID_OPTIONS,
          tutor \in Tutors, legacy \in {<<>>, <<StuCaps>>} :
          SubmitSession(student, D0309, 100, "SAT & ACT Prep", "Online",
                        tutor, paid_status, <<>>, legacy)

SpecPaths == Init /\ [][NextPaths]_vars

(* ------------------------------ claims --------------------------------- *)

StatusKey(row) == Lower(Strip(row.paid_status))

Settled(row) == StatusKey(row) \in {StrPaidLower, StrFreeSessionLower}

\* is_free of the data model: the status, defaulted to Not Paid when blank,
\* starts with "free" whatever its case
IsFree(row) ==
    StartsWith(Lower(IF row.paid_status = <<>> THEN StrNotPaid
                     ELSE row.paid_status), StrFreeLower)

\* round(hours_decimal * rate, 2) of a stored row, in cents
FullValue(row) == (row.hours_decimal * row.rate) \div 100

\* C1: after any sequence of append_session calls run one at a time on an
\* initially empty sheet, no two rows have the same id.
C1_UniqueIds ==
    \A i, j \in DOMAIN store : i # j => store[i].id # store[j].id

\* C2: for every sheet and every id of a row that is neither Paid nor Free
\* session, two mark_session_paid calls in a row with that id return 1 and
\* then 0, and that row is Paid after the first call and after the second.
C2_PaidTwice ==
    \A i \in DOMAIN store :
        ~Settled(store[i]) =>
            LET first  == mark_session_paid_by_id(store, store[i].id)
                second == mark_session_paid_by_id(first.rows, store[i].id)
            IN  /\ first.count = 1
                /\ second.count = 0
                /\ first.rows[i].paid_status = StrPaid
                /\ second.rows[i].paid_status = StrPaid

\* C3: in every state reached by append_session and the three mark
\* operations, a free row has amount_due 0 and every other row has amount_due
\* equal to its full value round(hours_decimal * rate, 2).
C3_AmountDue ==
    \A i \in DOMAIN store :
        IF IsFree(store[i]) THEN store[i].amount_due = 0
        ELSE store[i].amount_due = FullValue(store[i])

\* C4: for every session priced by append_session, the owner's tutor_pay is
\* amount_due (0.00 when free); any other tutor gets round(amount_due / 2, 2)
\* when the session is not free and round(full_amount / 2, 2) when it is; the
\* notes are "Pay <tutor> $<tutor_pay with 2 decimals>".
C4_TutorPay ==
    (op = "append_session" /\ ~ret.raised /\ store # <<>>) =>
        LET row == store[Len(store)]
        IN  /\ row.tutor = Nitin =>
                /\ ret.tutor_pay = ret.amount_due
                /\ IsFree(row) => ret.tutor_pay = 0
            /\ row.tutor # Nitin =>
                ret.tutor_pay = IF IsFree(row) THEN RoundHalf(FullValue(row))
                                ELSE RoundHalf(ret.amount_due)
            /\ ret.amount_due = row.amount_due
            /\ ret.notes = <<"P","a","y"," ">> \o row.tutor \o <<" ","$">>
                           \o Fmt2(ret.tutor_pay)
            /\ row.notes = ret.notes

\* a free session of a non-owner tutor whose full value is an odd number of
\* cents has been priced
C4_Witness ==
    /\ op = "append_session"
    /\ store # <<>>
    /\ store[Len(store)].tutor # Nitin
    /\ IsFree(store[Len(store)])
    /\ FullValue(store[Len(store)]) % 2 = 1
    /\ ret.tutor_pay > 0
    /\ ret.amount_due = 0

ImmutableColumns ==
    {COLUMNS[c] : c \in DOMAIN COLUMNS} \ {"paid_status", "notes"}

\* C5: the sheet is append-only: no operation removes or reorders a row,
\* append_session adds exactly one row at the end and changes no existing
\* row, and only paid_status and notes of an existing row ever change.
C5_AppendOnly ==
    [][/\ Len(store') >= Len(store)
       /\ \A i \in DOMAIN store :
            \A c \in ImmutableColumns : store'[i][c] = store[i][c]
       /\ IF op' = "append_session" /\ ~ret'.raised
          THEN /\ Len(store') = Len(store) + 1
               /\ SubSeq(store', 1, Len(store)) = store
          ELSE Len(store') = Len(store)]_vars

\* a second row was appended below a settled one and the week's notes were
\* then marked paid
C5_Witness ==
    /\ op = "mark_tutor_notes_paid"
    /\ ret.count >= 1
    /\ Len(store) >= 2
    /\ store[1].paid_status = StrPaid
    /\ store[1].paid_status # store[2].paid_status

\* the number of rows up to row i with the date of row i and, whatever the
\* case, its student
RankOf(i) ==
    Cardinality({j \in 1..i :
                    /\ store[j].date = store[i].date
                    /\ Lower(store[j].student_name) = Lower(store[i].student_name)})

\* C6: with append_session calls run one at a time, the k-th session of a
\* date and a student (compared case-insensitively) gets the id
\* "<date without dashes>-<student lowercased, spaces to underscores>-<k>".
C6_SerialInCallOrder ==
    \A i \in DOMAIN store :
        store[i].id = RemoveChar(store[i].date, "-") \o <<"-">>
                      \o ReplaceChar(Lower(store[i].student_name), " ", "_")
                      \o <<"-">> \o IntStr(RankOf(i))
\* both callers have appended, each after reading a sheet that held neither
\* of the two rows, for the same date and student
Raced(p, q) ==
    /\ p # q
    /\ procs[p].pc = "idle"
    /\ procs[q].pc = "idle"
    /\ procs[p].wroteAt > 0
    /\ procs[q].wroteAt > 0
    /\ procs[p].readLen = procs[q].readLen
    /\ procs[p].row.date = procs[q].row.date
    /\ Lower(procs[p].row.student_name) = Lower(procs[q].row.student_name)

\* C7: when two append_session calls for the same student and date both read
\* the sheet before either appends, they compute the same serial and the
\* sheet ends up with two rows of the same id.
C7_RaceDuplicatesId ==
    \A p, q \in Procs :
        Raced(p, q) =>
            /\ procs[p].wroteAt # procs[q].wroteAt
            /\ store[procs[p].wroteAt].id = store[procs[q].wroteAt].id

\* the race has happened and the sheet holds two rows with one id
C7_Witness ==
    /\ Raced(1, 2)
    /\ \E i, j \in DOMAIN store : i # j /\ store[i].id = store[j].id

InWeek(row, sunday_iso) ==
    /\ ParseISO(sunday_iso) - 6 <= ParseISO(row.date)
    /\ ParseISO(row.date) <= ParseISO(sunday_iso)

PaidNote(notes) == <<"P","a","i","d"," ">> \o SubSeq(notes, 5, Len(notes))

PaidNoteTrimmed(notes) == PaidNote(Strip(notes))

\* the step replaces the notes of exactly the rows in targets by
\* Rewrite(notes) and returns their number
NotesRewritten(targets, Rewrite(_)) ==
    /\ Len(store') = Len(store)
    /\ \A i \in DOMAIN store :
          IF i \in targets
          THEN store'[i] = [store[i] EXCEPT !.notes = Rewrite(store[i].notes)]
          ELSE store'[i] = store[i]
    /\ ret'.count = Cardinality(targets)

\* C8: mark_week_notes_paid(sunday) rewrites "Pay " to "Paid " for exactly
\* the rows dated in [sunday - 6 days, sunday] whose tutor is not the owner
\* and whose notes begin with "Pay "; it changes no row of the owner, no row
\* outside the window, no other field, and returns the number of rows changed.
C8_NonOwnerNotesOnly ==
    [][op' = "mark_tutor_notes_paid" =>
       \A sunday_iso \in Sundays :
          MarkTutorNotesPaid(sunday_iso) =>
              NotesRewritten({i \in DOMAIN store :
                                /\ InWeek(store[i], sunday_iso)
                                /\ store[i].tutor # Nitin
                                /\ StartsWith(store[i].notes, StrPay)},
                             PaidNote)]_vars

\* C8 as amended: the rows rewritten are exactly those dated in the window
\* whose notes, trimmed, begin with "Pay ", the owner's rows included; the new
\* notes are the trimmed notes with the leading "Pay " turned into "Paid ".
C8_NotesOfTheWeek ==
    [][op' = "mark_tutor_notes_paid" =>
       \A sunday_iso \in Sundays :
          MarkTutorNotesPaid(sunday_iso) =>
              NotesRewritten({i \in DOMAIN store :
                                /\ InWeek(store[i], sunday_iso)
                                /\ StartsWith(Strip(store[i].notes), StrPay)},
                             PaidNoteTrimmed)]_vars

\* a week was marked paid: an owner's row reads "Paid ..." and a row outside
\* that week still reads "Pay ..."
C8_Witness ==
    /\ op = "mark_tutor_notes_paid"
    /\ ret.count >= 1
    /\ \E i \in DOMAIN store :
          store[i].tutor = Nitin /\ StartsWith(store[i].notes, StrPaidSp)
    /\ \E i \in DOMAIN store : StartsWith(store[i].notes, StrPay)

Unpaid(row) == StatusKey(row) \in {<<>>, StrNotPaidLower, StrUnpaidLower}

\* the step sets paid_status to Paid on exactly the rows in targets and
\* returns their number
StatusPaid(targets) ==
    /\ Len(store') = Len(store)
    /\ \A i \in DOMAIN store :
          IF i \in targets
          THEN store'[i] = [store[i] EXCEPT !.paid_status = StrPaid]
          ELSE store'[i] = store[i]
    /\ ret'.count = Cardinality(targets)

\* C9: mark_client_paid(student, date) sets Paid on exactly the rows whose
\* student_name equals student case-insensitively, whose date equals date,
\* and whose status (trimmed, case-insensitive) is blank, "not paid" or
\* "unpaid"; every other row is unchanged; it returns the number changed.
C9_ExactStudent ==
    [][op' = "mark_client_paid" =>
       \A student \in ClientNames, date_iso \in Dates :
          MarkClientPaid(student, date_iso) =>
              StatusPaid({i \in DOMAIN store :
                            /\ Lower(store[i].student_name) = Lower(student)
                            /\ store[i].date = date_iso
                            /\ Unpaid(store[i])})]_vars

\* C9 as amended: names and dates are compared after trimming, and a student
\* or date that is blank after trimming matches nothing.
C9_TrimmedStudent ==
    [][op' = "mark_client_paid" =>
       \A student \in ClientNames, date_iso \in Dates :
          MarkClientPaid(student, date_iso) =>
              StatusPaid({i \in DOMAIN store :
                            /\ Strip(student) # <<>>
                            /\ Strip(date_iso) # <<>>
                            /\ Lower(Strip(store[i].student_name))
                                 = Lower(Strip(student))
                            /\ Strip(store[i].date) = Strip(date_iso)
                            /\ Unpaid(store[i])})]_vars

\* a client payment settled a row whose name carries a trailing space, while
\* an unpaid row of another date or student and a free row stayed as they were
C9_Witness ==
    /\ op = "mark_client_paid"
    /\ ret.count >= 1
    /\ \E i \in DOMAIN store :
          store[i].student_name = StuTrail /\ store[i].paid_status = StrPaid
    /\ \E i \in DOMAIN store : Unpaid(store[i])

\* C10: mark_client_paid and mark_week_notes_paid are safe to retry: a second
\* call right after the first with the same arguments returns 0 and leaves
\* the sheet as the first call left it.
C10_RetryIsNoOp ==
    [][/\ op' = "mark_client_paid" =>
            \A student \in ClientNames, date_iso \in Dates :
                MarkClientPaid(student, date_iso) =>
                    LET again == mark_client_paid(store', student, date_iso)
                    IN  again.count = 0 /\ again.rows = store'
       /\ op' = "mark_tutor_notes_paid" =>
            \A sunday_iso \in Sundays :
                MarkTutorNotesPaid(sunday_iso) =>
                    LET again == mark_tutor_notes_paid(store', sunday_iso)
                    IN  again.count = 0 /\ again.rows = store']_vars

\* a client payment has just settled two rows on a sheet whose notes had
\* already been marked paid
C10_Witness ==
    /\ op = "mark_client_paid"
    /\ ret.count >= 2
    /\ \E i \in DOMAIN store : StartsWith(store[i].notes, StrPaidSp)

\* rows dated in [sunday - 6 days, sunday] whose tutor is named and is not the
\* owner
WeekRows(sunday_iso) ==
    {i \in DOMAIN store :
        /\ InWeek(store[i], sunday_iso)
        /\ store[i].tutor # <<>>
        /\ store[i].tutor # Nitin}

\* 0.5 * hours_decimal * rate for a free row and 0.5 * amount_due for any
\* other, in units of 1/20000 dollar
HalfShare(row) ==
    IF IsFree(row) THEN row.hours_decimal * row.rate
    ELSE 100 * row.amount_due

RECURSIVE SumHalfShares(_)
SumHalfShares(rows) ==
    IF rows = {} THEN 0
    ELSE LET i == CHOOSE i \in rows : TRUE
         IN  HalfShare(store[i]) + SumHalfShares(rows \ {i})

\* C11: weekly_tutor_totals(sunday) returns start = sunday - 6 days and
\* end = sunday; its keys are the tutors, other than the owner, of the rows
\* dated in [start, end], and each total is the sum over that tutor's rows in
\* the window of 0.5 * hours_decimal * rate for a free row and of
\* 0.5 * amount_due for any other; the owner is never a key and the sheet is
\* left as it was.
C11_WeeklyTotals ==
    [][op' = "compute_weekly_tutor_totals" =>
       \A sunday_iso \in Sundays :
          ComputeWeeklyTutorTotals(sunday_iso) =>
              /\ ret'.end = sunday_iso
              /\ ParseISO(ret'.start) = ParseISO(sunday_iso) - 6
              /\ sunday_iso = D0309 => ret'.start = D0303
              /\ DOMAIN ret'.totals =
                     {store[i].tutor : i \in WeekRows(sunday_iso)}
              /\ \A t \in DOMAIN ret'.totals :
                     ret'.totals[t] =
                         SumHalfShares({i \in WeekRows(sunday_iso) :
                                           store[i].tutor = t})
              /\ Nitin \notin DOMAIN ret'.totals
              /\ store' = store]_vars

\* totals were computed for a week that holds a free session of a tutor,
\* counted at half its full value, and the sheet also holds a row left out: a
\* session of the owner or one dated outside the week
C11_Witness ==
    /\ op = "compute_weekly_tutor_totals"
    /\ ret.end = D0309
    /\ DOMAIN ret.totals = {Aryan}
    /\ ret.totals[Aryan] = 167 * 3500
    /\ \E i \in DOMAIN store : IsFree(store[i]) /\ store[i].amount_due = 0
    /\ \E i \in DOMAIN store :
          store[i].tutor = Nitin \/ ~InWeek(store[i], ret.end)

MonthOf(row) == SubSeq(row.date, 1, 7)

\* the rows of the summary sheet of one kind, in sheet order
KindRows(kind) == SelectSeq(summary, LAMBDA r : r.kind = kind)

\* the month of the block that summary row j belongs to
MonthAt(j) ==
    LET m == CHOOSE m \in 1..j :
                 /\ summary[m].kind = "month"
                 /\ \A n \in (m + 1)..j : summary[n].kind # "month"
    IN  summary[m].name

\* the sum of amount_due over a set of rows, in units of 1/20000 dollar
RECURSIVE SumDue(_)
SumDue(rows) ==
    IF rows = {} THEN 0
    ELSE LET i == CHOOSE i \in rows : TRUE
         IN  200 * store[i].amount_due + SumDue(rows \ {i})

OwnerRows(ym) ==
    {i \in DOMAIN store : MonthOf(store[i]) = ym /\ store[i].tutor = Nitin}

OtherRows(ym) ==
    {i \in DOMAIN store : MonthOf(store[i]) = ym /\ store[i].tutor # Nitin}

OtherFreeRows(ym) == {i \in OtherRows(ym) : IsFree(store[i])}

\* the owner's business earnings of a month, in units of 1/20000 dollar
BusinessEarnings(ym) ==
    SumDue(OwnerRows(ym))
    + SumHalfShares(OtherRows(ym) \ OtherFreeRows(ym))
    - SumHalfShares(OtherFreeRows(ym))

C13_FullyReplacing ==
    [][op' = "update_tutor_summary_sheet" =>
          /\ store' = store
          /\ ret'.rows = SummaryRows(store)
          /\ summary' = ret'.rows
          /\ op = "update_tutor_summary_sheet" =>
                summary' = summary /\ ret' = ret]_vars

\* the summary was rebuilt over a sheet with sessions: it is shorter than the
\* stale content a summary sheet can start with and holds none of its months
\* or earnings
C13_Witness ==
    /\ op = "update_tutor_summary_sheet"
    /\ store # <<>>
    /\ summary = ret.rows
    /\ summary # <<>>
    /\ Len(summary) < Len(StaleSummary)
    /\ \A j \in DOMAIN summary :
          summary[j] \notin {StaleSummary[k] : k \in {1, 3, 7, 9}}

\* C14: list_unpaid returns, in sheet order, exactly the rows whose
\* paid_status, trimmed and lower-cased, is "", "not paid" or "unpaid", each
\* with its id, student, date, service, tutor, amount_due and trimmed status;
\* a row that is Paid, Free session or of an unrecognized status such as
\* "weird_value" never appears; the sheet is left as it was.
C14_UnpaidList ==
    [][op' = "list_unpaid_sessions" =>
          LET listed == SelectSeq(store, Unpaid)
          IN  /\ store' = store
              /\ Len(ret'.results) = Len(listed)
              /\ \A k \in DOMAIN listed :
                    ret'.results[k] =
                        [id           |-> listed[k].id,
                         student_name |-> listed[k].student_name,
                         date         |-> listed[k].date,
                         service      |-> listed[k].service,
                         tutor        |-> listed[k].tutor,
                         amount_due   |-> listed[k].amount_due,
                         paid_status  |-> Strip(listed[k].paid_status)]
              /\ \A i \in DOMAIN store :
                    StatusKey(store[i]) \in
                        {StrPaidLower, StrFreeSessionLower, StrFreeLower,
                         StrWeird} =>
                        \A k \in DOMAIN ret'.results :
                            ret'.results[k].id # store[i].id]_vars

\* the list was taken of a sheet holding a row of status "weird_value" above
\* an unpaid one, and holds the unpaid row only
C14_Witness ==
    /\ op = "list_unpaid_sessions"
    /\ Len(store) >= 2
    /\ store[1].paid_status = StrWeird
    /\ Len(ret.results) = 1
    /\ ret.results[1].id = store[2].id
    /\ ret.results[1].paid_status = StrUnpaid

\* the student's name, trimmed and lower-cased, is one of the names of the
\* legacy list, compared whatever their case
InLegacySet(student, legacy_clients) ==
    \E i \in DOMAIN legacy_clients :
        Lower(Strip(student)) = Lower(legacy_clients[i])

OtherMode(mode) == IF mode = "Online" THEN "In-Person" ELSE "Online"

\* C15: a student whose trimmed, lower-cased name is in the legacy set is
\* priced at tier Legacy and the flat legacy rate of the service, so rate and
\* amount_due are the same for Online and In-Person with all other inputs
\* equal; every other student is priced at tier New and the rate of the
\* service and mode.
C15_TierAndRate ==
    [][op' = "append_session" =>
       \A student \in {StuAB, StuTrail, StuUnder}, minutes \in {60, 100},
          service \in SERVICES, mode \in MODES,
          paid_status \in {<<>>, StrFreeSession},
          legacy_clients \in LegacyLists :
          AppendSession(student, D0309, minutes, service, mode, Aryan,
                        paid_status, legacy_clients) =>
              LET row   == store'[Len(store')]
                  other == Pricing(student, minutes, service, OtherMode(mode),
                                   Aryan, paid_status, legacy_clients)
              IN  IF InLegacySet(student, legacy_clients)
                  THEN /\ ret'.tier = "Legacy"
                       /\ row.rate_tier = "Legacy"
                       /\ ret'.hourly_rate = 100 * LEGACY_RATES[service]
                       /\ row.rate = ret'.hourly_rate
                       /\ other.hourly_rate = ret'.hourly_rate
                       /\ other.amount_due = ret'.amount_due
                       /\ row.amount_due = ret'.amount_due
                       /\ (/\ service = "K-12 Tutoring"
                           /\ minutes = 60
                           /\ paid_status = <<>>) =>
                             ret'.hourly_rate = 2500 /\ ret'.amount_due = 2500
                  ELSE /\ ret'.tier = "New"
                       /\ row.rate_tier = "New"
                       /\ ret'.hourly_rate = 100 * NEW_RATES[service][mode]
                       /\ row.rate = ret'.hourly_rate]_vars

\* an In-Person session of a student entered with a trailing space, whose
\* name is on the legacy list in capitals, was priced at the flat legacy rate,
\* which is below the In-Person rate of a new client
C15_Witness ==
    /\ op = "append_session"
    /\ store # <<>>
    /\ store[1].student_name = StuTrail
    /\ store[1].mode = "In-Person"
    /\ ret.tier = "Legacy"
    /\ ret.hourly_rate = 100 * LEGACY_RATES[store[1].service]
    /\ ret.hourly_rate < 100 * NEW_RATES[store[1].service]["In-Person"]

\* C16: append_session fails, appends no row and changes no row whenever the
\* service is not a known service, the mode is not a known mode, or the
\* student or the tutor is empty after trimming whitespace (a name of spaces
\* only included).
C16_RejectsBlankNames ==
    [][op' = "append_session" =>
       \A student \in NameInputs(StuAB), date_iso \in Dates,
          service \in ServiceInputs, mode \in ModeInputs,
          tutor \in NameInputs(Aryan), paid_status \in {<<>>, StrFreeSession} :
          AppendSession(student, date_iso, 100, service, mode, tutor,
                        paid_status, <<>>) =>
              ((\/ service \notin SERVICES
                \/ mode \notin MODES
                \/ Strip(student) = <<>>
                \/ Strip(tutor) = <<>>) =>
                   ret'.raised /\ store' = store)]_vars

\* C17: mark_session_paid called with an id that no row has, with a blank
\* id, or with the id of a row that is already Paid or Free session returns 0
\* without raising and leaves every row unchanged.
C17_SettledIdIsNoOp ==
    [][op' = "mark_session_paid_by_id" =>
       \A session_id \in SessionIdInputs :
          MarkSessionPaidById(session_id) =>
              ((\/ Strip(session_id) = <<>>
                \/ \A i \in DOMAIN store : store[i].id # session_id
                \/ \E i \in DOMAIN store :
                      store[i].id = session_id /\ Settled(store[i])) =>
                   /\ ret'.count = 0
                   /\ ~ret'.raised
                   /\ store' = store)]_vars

\* the text holds a colon, and hours and minutes are the numbers before and
\* after the first one
HasColon(text) == \E i \in DOMAIN text : text[i] = ":"

FirstColon(text) ==
    CHOOSE i \in DOMAIN text :
        text[i] = ":" /\ \A j \in 1..(i - 1) : text[j] # ":"

HoursPart(text) == PyInt(SubSeq(text, 1, FirstColon(text) - 1))

MinutePart(text) == PyInt(SubSeq(text, FirstColon(text) + 1, Len(text)))

\* C18: parse_duration fails when both texts are non-empty after trimming
\* and when both are empty; given one text it fails when the minute count is
\* <= 0, when H:MM has no colon, when the minute part is outside [0, 60) or
\* when the total is <= 0; every value it returns is a positive integer equal
\* to the minute count or to hours * 60 + minutes.
C18_ParseDuration ==
    op = "parse_duration" =>
       \A minutes_text \in MinutesTexts, hhmm_text \in HhmmTexts :
          ret = parse_duration(minutes_text, hhmm_text) =>
              LET mt == Strip(minutes_text)
                  ht == Strip(hhmm_text)
              IN  /\ (mt # <<>> /\ ht # <<>>) => ret.raised
                  /\ (mt = <<>> /\ ht = <<>>) => ret.raised
                  /\ (mt # <<>> /\ PyInt(mt).ok /\ PyInt(mt).value <= 0) =>
                        ret.raised
                  /\ (mt = <<>> /\ ht # <<>> /\ ~HasColon(ht)) => ret.raised
                  /\ (/\ mt = <<>>
                      /\ HasColon(ht)
                      /\ MinutePart(ht).ok
                      /\ MinutePart(ht).value \notin 0..59) => ret.raised
                  /\ (/\ mt = <<>>
                      /\ HasColon(ht)
                      /\ HoursPart(ht).ok
                      /\ MinutePart(ht).ok
                      /\ HoursPart(ht).value * 60 + MinutePart(ht).value <= 0)
                        => ret.raised
                  /\ ~ret.raised =>
                        /\ ret.value > 0
                        /\ IF mt # <<>> THEN ret.value = PyInt(mt).value
                           ELSE /\ MinutePart(ht).value \in 0..59
                                /\ ret.value = HoursPart(ht).value * 60
                                               + MinutePart(ht).value
                  /\ (mt = <<"9","0">> /\ ht = <<>>) =>
                        ~ret.raised /\ ret.value = 90
                  /\ (mt = <<>> /\ ht = <<"2",":","0","5">>) =>
                        ~ret.raised /\ ret.value = 125

\* a duration given as H:MM was parsed to 125 minutes after a session of an
\* earlier parsed duration had been logged
C18_Witness ==
    /\ op = "parse_duration"
    /\ ~ret.raised
    /\ ret.value = 125
    /\ store # <<>>
    /\ store[1].minutes = 45

\* the sheet without the rows that hold a numeric cell that is no number
ParsedRows == SelectSeq(store, NumbersParse)

\* C19: in weekly_tutor_totals and rebuild_monthly_summary a row whose
\* hours_decimal, rate or amount_due cannot be parsed as a number contributes
\* to no total and does not stop the aggregation: the result is the one
\* computed over the sheet with that row removed.
C19_BadRowsSkipped ==
    /\ op = "compute_weekly_tutor_totals" =>
          ret = compute_weekly_tutor_totals(ParsedRows, ret.end)
    /\ op = "update_tutor_summary_sheet" =>
          /\ ret.rows = SummaryRows(ParsedRows)
          /\ summary = ret.rows

\* the summary was rebuilt over a sheet that holds a paid session of another
\* tutor whose hours_decimal is no number, next to a session that counts
C19_Witness ==
    /\ op = "update_tutor_summary_sheet"
    /\ summary # <<>>
    /\ \E i \in DOMAIN store :
          /\ store[i].hours_decimal = NotANumber
          /\ store[i].tutor # Nitin
          /\ ~IsFree(store[i])
    /\ \E i \in DOMAIN store : NumbersParse(store[i])

\* C20: settled states are absorbing.  Whatever operation runs, a row whose
\* paid_status is Paid or Free session (in any case, padded or not) keeps its
\* paid_status, and a row whose notes begin with "Paid " keeps its notes.
C20_SettledIsAbsorbing ==
    [][\A i \in DOMAIN store :
          /\ i \in DOMAIN store'
          /\ Settled(store[i]) => store'[i].paid_status = store[i].paid_status
          /\ StartsWith(store[i].notes, StrPaidSp) =>
                store'[i].notes = store[i].notes]_vars

\* a mark operation by id has run over a sheet with a settled row whose note
\* had been rewritten to "Paid ..." before, next to a row it did settle
C20_Witness ==
    /\ op = "mark_session_paid_by_id"
    /\ ret = Count(1)
    /\ \E i \in DOMAIN store :
          /\ store[i].paid_status = StrFreeSession
          /\ StartsWith(store[i].notes, StrPaidSp)

\* the rows list_unpaid_sessions reports
UnpaidRowsOf(ws) == {i \in DOMAIN ws : UnpaidStatus(StatusKey(ws[i]))}

\* C21: every unpaid session can be settled by its id.  For every row that
\* list_unpaid_sessions reports, mark_session_paid_by_id called with the id
\* of its entry makes that row Paid, so that the list no longer holds it.
C21_UnpaidSettledById ==
    [][op' = "mark_session_paid_by_id" =>
       \A i \in UnpaidRowsOf(store) :
          MarkSessionPaidById(UnpaidEntry(store[i]).id) =>
              /\ store'[i].paid_status = StrPaid
              /\ i \notin UnpaidRowsOf(store')
              /\ Len(list_unpaid_sessions(store')) =
                    Len(list_unpaid_sessions(store)) - 1]_vars

\* the summary rows of the month ym that show another tutor than the owner
OtherTutorFigures(ym) ==
    {j \in DOMAIN summary :
        /\ summary[j].kind = "tutor"
        /\ summary[j].name # Nitin
        /\ MonthAt(j) = ym}

\* the sum of the amounts of a set of summary rows, in cents
RECURSIVE SumFigures(_)
SumFigures(rows) ==
    IF rows = {} THEN 0
    ELSE LET j == CHOOSE j \in rows : TRUE
         IN  summary[j].amount + SumFigures(rows \ {j})

\* what the summary shows as paid out to other tutors and kept by the
\* business in the month of the business row j, in units of 1/20000 dollar
ShownRevenue(j) ==
    200 * (SumFigures(OtherTutorFigures(MonthAt(j))) + summary[j].amount)

MonthRecords(ym) == {i \in DOMAIN store : MonthOf(store[i]) = ym}

TutorRecords(ym) == {i \in MonthRecords(ym) : Strip(store[i].tutor) # <<>>}

Distance(a, b) == IF a < b THEN b - a ELSE a - b

\* C22 as stated: in every month of the rebuilt summary, the earnings of the
\* tutors other than the owner plus the business-earnings figure equal the
\* sum of amount_due over all of the month's records.
C22_RevenueConserved ==
    op = "update_tutor_summary_sheet" =>
        \A j \in DOMAIN summary :
            summary[j].kind = "business" =>
                ShownRevenue(j) = SumDue(MonthRecords(MonthAt(j)))

\* C22 as amended: the figures are shown with two decimals, so that they add
\* up to the sum of amount_due over the month's records that name a tutor
\* within half a cent for every figure added.
C22_RevenueWithinRounding ==
    op = "update_tutor_summary_sheet" =>
        \A j \in DOMAIN summary :
            summary[j].kind = "business" =>
                Distance(ShownRevenue(j), SumDue(TutorRecords(MonthAt(j))))
                  <= 100 * (Cardinality(OtherTutorFigures(MonthAt(j))) + 1)

\* the summary was rebuilt over a month with paid sessions of two tutors
\* other than the owner: each is shown half of 26.25 as 13.12, the business
\* 26.25, and a cent of the 52.50 due is missing from the figures
C22_Witness ==
    /\ op = "update_tutor_summary_sheet"
    /\ \E j \in DOMAIN summary :
          /\ summary[j].kind = "business"
          /\ Cardinality(OtherTutorFigures(MonthAt(j))) = 2
          /\ SumDue(TutorRecords(MonthAt(j))) - ShownRevenue(j) = 200

\* tutor_pay as append_session computed it for a row entered without legacy
\* clients, in cents: the amount of the row's "Pay <tutor> $X.XX" note
PromisedPay(row) ==
    Pricing(row.student_name, row.minutes, row.service, row.mode, row.tutor,
            row.paid_status, <<>>).tutor_pay

RECURSIVE SumPromisedPay(_)
SumPromisedPay(rows) ==
    IF rows = {} THEN 0
    ELSE LET i == CHOOSE i \in rows : TRUE
         IN  PromisedPay(store[i]) + SumPromisedPay(rows \ {i})

\* C23: payroll agrees with the promised pay.  On a sheet built by
\* append_session alone, the weekly total of every tutor other than the owner
\* is the sum of the tutor_pay amounts of the notes of that tutor's sessions
\* in the window (totals are in units of 1/20000 dollar, tutor_pay in cents).
C23_PayrollMatchesNotes ==
    op = "compute_weekly_tutor_totals" =>
        \A t \in DOMAIN ret.totals :
            LET rows == {i \in WeekRows(ret.end) : store[i].tutor = t}
            IN  /\ \A i \in rows :
                      store[i].notes = StrPay \o t \o <<" ", "$">>
                                         \o Fmt2(PromisedPay(store[i]))
                /\ ret.totals[t] = 200 * SumPromisedPay(rows)

\* the cell the marking caller writes next, and the row of the sheet it is in
NextWriteOf(p) == Head(procs[p].writes)

TargetOf(p) == NextWriteOf(p).row_num - 1

\* C24: row-positioned updates stay on target under interleaving.  Whatever
\* append_session calls ran since a mark operation read the rows, each of its
\* writes lands on the record that matched at read time, which is still as it
\* was read, and changes nothing but that record's cell; when the operation
\* returns, the rows it read are marked as by an undisturbed run and the rows
\* appended meanwhile are as they were appended.
C24_WritesStayOnTarget ==
    [][\A p \in Procs :
          /\ (procs[p].pc = "marking" /\ procs'[p].writes # procs[p].writes) =>
                LET w == NextWriteOf(p)
                    t == TargetOf(p)
                IN  /\ t \in DOMAIN procs[p].seen
                    /\ store[t] = procs[p].seen[t]
                    /\ store' = [store EXCEPT ![t][COLUMNS[w.col]] = w.value]
                    /\ store'[t] # store[t]
          /\ (procs[p].pc = "marking" /\ procs'[p].pc = "idle") =>
                LET seen == procs[p].seen
                    call == procs[p].call
                    done == SubSeq(store, 1, Len(seen))
                IN  /\ \A i \in DOMAIN seen :
                          \A c \in DOMAIN seen[i] \ {"paid_status", "notes"} :
                             done[i][c] = seen[i][c]
                    /\ call = "mark_tutor_notes_paid" =>
                          done = mark_tutor_notes_paid(seen, D0309).rows
                    /\ call = "mark_client_paid" =>
                          done = mark_client_paid(seen, StuCaps, D0309).rows
                    /\ call = "mark_session_paid_by_id" =>
                          \E session_id \in {seen[i].id : i \in DOMAIN seen}
                                            \cup {<<>>, <<"x">>} :
                             done = mark_session_paid_by_id(seen,
                                                            session_id).rows
                    /\ \A i \in (Len(seen) + 1)..Len(store) :
                          /\ store[i].notes =
                                StrPay \o store[i].tutor \o <<" ", "$">>
                                  \o Fmt2(PromisedPay(store[i]))
                          /\ store[i].paid_status \in {StrNotPaid, StrPaid}]_vars

\* a mark operation has returned after writing a cell at a moment when the
\* sheet was longer than what it had read: a session was appended between
\* its read and its write
C24_Witness ==
    /\ procs[1].pc = "idle"
    /\ procs[1].call \in {"mark_client_paid", "mark_tutor_notes_paid",
                          "mark_session_paid_by_id"}
    /\ op = procs[1].call
    /\ ret.count >= 1
    /\ Len(procs[1].seen) >= 1
    /\ procs[1].lenAtWrite > Len(procs[1].seen)

\* C25: the two session-creation paths agree.  On any sheet built through
\* either path, for the same valid inputs and a blank Notes box, the row the
\* dashboard's Submit Session handler appends is the row append_session
\* appends, id and serial included, and so the other way round.
C25_PathsAgree ==
    [][\A student \in PathStudents, paid_status \in PAID_OPTIONS,
          tutor \in Tutors, legacy \in {<<>>, <<StuCaps>>} :
          /\ (/\ op' = "submit_session"
              /\ SubmitSession(student, D0309, 100, "SAT & ACT Prep",
                               "Online", tutor, paid_status, <<>>, legacy)) =>
                store' = AppendRow(store,
                             NewRow(store, student, D0309, 100,
                                    "SAT & ACT Prep", "Online", tutor,
                                    paid_status, legacy))
          /\ (/\ op' = "append_session"
              /\ AppendSession(student, D0309, 100, "SAT & ACT Prep",
                               "Online", tutor, paid_status, legacy)) =>
                store' = AppendRow(store,
                             SubmitRow(store, student, D0309, 100,
                                       "SAT & ACT Prep", "Online", tutor,
                                       paid_status, <<>>, legacy))]_vars


====
